---- MODULE Spec2Model ----
(***************************************************************************)
(* Model of the Python-versions refresher of app/applets/core/helpers.py   *)
(* and of the route handlers of app/applets/core/controller.py that read   *)
(* its table.                                                              *)
(*                                                                         *)
(* Time is counted in ticks, TicksPerDay of them to a day.  A timestamp    *)
(* (last_updated) is kept as its age, now - last_updated, in ticks; ages   *)
(* saturate at MaxAge, which lies above every threshold the code compares  *)
(* an age with, so that time can always advance in a finite state space.   *)
(*                                                                         *)
(* A coroutine advances from one suspension point (await) to the next in   *)
(* one action: the code between two awaits runs without interleaving on    *)
(* the single event loop.                                                  *)
(***************************************************************************)
EXTENDS Integers, Sequences, FiniteSets, TLC

VARIABLES
    store,      \* committed rows of table python_versions (a set of rows)
    pc,         \* per coroutine: the await it is suspended at
    latest,     \* per coroutine: latest_versions of its running cycle
    batch,      \* per coroutine: versions_to_update of its running cycle
    written,    \* per coroutine: rows of batch its executemany has inserted
    timer,      \* ticks left of periodic_update's asyncio.sleep
    fails,      \* consecutive failed scheduler cycles (saturating)
    response,   \* what the last step handed to a caller of a read path, if anything
    answer,     \* the upstream answer the last step received, if any
    upstream,   \* what the two upstream endpoints answer, where a run fixes it
    table       \* whether table python_versions exists in the database file

vars == <<store, pc, latest, batch, written, timer, fails, response, answer,
          upstream, table>>

(***************************************************************************)
(* Bounds of the model.                                                    *)
(***************************************************************************)
TicksPerDay == 2
MaxTags == 2
MaxFails == 2
MaxRefs == 3

Day == TicksPerDay
MaxAge == 2 * Day

Min(a, b) == IF a < b THEN a ELSE b
Older(age) == Min(age + 1, MaxAge)

(***************************************************************************)
(* Program constants.                                                      *)
(***************************************************************************)
\* A series "M.m" is the pair <<M, m>>; the f-string is injective on it.
ACTIVE_VERSIONS == << <<3, 9>>, <<3, 10>>, <<3, 11>>, <<3, 12>>, <<3, 13>> >>

NoPre == <<"", 0>>

MkVersion(M, m, u, pre) == [major |-> M, minor |-> m, micro |-> u, pre |-> pre]

\* pkg_version.parse("3.14.0a0")
PRE_RELEASE == MkVersion(3, 14, 0, <<"a", 0>>)

\* asyncio.sleep(24 * 60 * 60)
SLEEP == Day

SCHED == "periodic_update"
FACADE == "get_python_versions"
Procs == {SCHED, FACADE}

(***************************************************************************)
(* packaging.version: parsing and ordering.                                *)
(***************************************************************************)
\* A raw tag descriptor {"ref": prefix + text}.  valid tells whether text is
\* a PEP 440 version; an invalid text makes pkg_version.parse raise.
MkTag(prefix, valid, M, m, u, pre) ==
    [prefix |-> prefix, valid |-> valid, major |-> M, minor |-> m, micro |-> u, pre |-> pre]

TagPrefix == "refs/tags/v"

\* The test of line 211 left out.
is_prereleaseNever(v) == FALSE

is_prerelease(v) == v.pre # NoPre

\* _cmpkey: a release without pre segment sorts after all its pre-releases;
\* pre segments compare by letter ("a" < "b" < "rc"), then by number.
LetterRank(l) == CASE l = "a" -> 0 [] l = "b" -> 1 [] l = "rc" -> 2 [] OTHER -> 3

\* The release segment alone: a pre-release ties with its final release.
VersionKeyReleaseOnly(v) == <<v.major, v.minor, v.micro>>

VersionKey(v) == <<v.major, v.minor, v.micro, LetterRank(v.pre[1]), v.pre[2]>>

RECURSIVE LexLess(_, _, _)
LexLess(a, b, i) ==
    IF i > Len(a) THEN FALSE
    ELSE IF a[i] # b[i] THEN a[i] < b[i]
    ELSE LexLess(a, b, i + 1)

VersionLess(a, b) == LexLess(VersionKey(a), VersionKey(b), 1)

Series(v) == <<v.major, v.minor>>

(***************************************************************************)
(* The two fetchers.  An upstream answer is what the HTTP exchange gave:   *)
(* kind "ok" with a decoded body, or the kind of failure.                  *)
(***************************************************************************)
\* A value a function returns, or the fact that it raised.
Returned(v) == [raised |-> FALSE, val |-> v]
Raises == [raised |-> TRUE, val |-> <<>>]

TagFailures == {"HTTPStatusError", "RequestError", "JSONDecodeError"}
EolFailures == {"HTTPStatusError", "RequestError", "ParseError"}

\* get_tags_from_github letting its failures propagate.
get_tags_from_githubRaising(a) ==
    IF a.kind = "ok" THEN Returned(a.body) ELSE Raises

\* Every except branch of get_tags_from_github returns [].
get_tags_from_github(a) ==
    IF a.kind = "ok" THEN Returned(a.body) ELSE Returned(<<>>)

\* get_version_eols failing soft, with an empty map.
get_version_eolsSoft(a) ==
    IF a.kind = "ok" THEN Returned(a.body) ELSE Returned(<<>>)

\* get_version_eols has no except branch: a failure propagates.
get_version_eols(a) ==
    IF a.kind = "ok" THEN Returned(a.body) ELSE Raises

(***************************************************************************)
(* Version resolver.                                                       *)
(***************************************************************************)
startswith(item) == item.prefix = TagPrefix

parse(item) == MkVersion(item.major, item.minor, item.micro, item.pre)

\* The comprehension filters on the prefix and parses what passes; one
\* InvalidVersion aborts the whole comprehension.
get_version_from_tags(tags) ==
    LET kept == SelectSeq(tags, startswith)
    IN  IF \E i \in 1..Len(kept) : ~kept[i].valid
        THEN Raises
        ELSE Returned([i \in 1..Len(kept) |-> parse(kept[i])])

\* A dict is a sequence of <<key, value>> pairs in insertion order.
HasKey(d, k) == \E i \in 1..Len(d) : d[i][1] = k
Get(d, k) == d[CHOOSE i \in 1..Len(d) : d[i][1] = k][2]
\* latest kept as a list of pairs that is only appended to.
PutAppend(d, k, v) == Append(d, <<k, v>>)

\* latest[series] = version
Put(d, k, v) ==
    IF HasKey(d, k)
    THEN [i \in 1..Len(d) |-> IF d[i][1] = k THEN <<k, v>> ELSE d[i]]
    ELSE Append(d, <<k, v>>)

InActive(series) == \E i \in 1..Len(ACTIVE_VERSIONS) : ACTIVE_VERSIONS[i] = series

\* get_latest_version returning latest without the filter of line 150.
IsActivePairAny(kv) == TRUE

IsActivePair(kv) == InActive(kv[1])

RECURSIVE LatestLoop(_, _, _)
LatestLoop(d, all_versions, i) ==
    IF i > Len(all_versions) THEN d
    ELSE LET version == all_versions[i]
             series == Series(version)
         IN  IF (HasKey(d, series) /\ VersionLess(Get(d, series), version))
                \/ ~HasKey(d, series)
             THEN LatestLoop(Put(d, series, version), all_versions, i + 1)
             ELSE LatestLoop(d, all_versions, i + 1)

get_latest_version(all_versions) ==
    SelectSeq(LatestLoop(<<>>, all_versions, 1), IsActivePair)

\* A row of python_versions / a Version struct.  name is the f-string
\* "Python M.m.p", injective on <<M, m, p>>; age is now - last_updated.
MkRow(M, m, p, level, status, age) ==
    [name |-> <<"Python", M, m, p>>, major |-> M, minor |-> m, patch |-> p,
     level |-> level, status |-> status, age |-> age]

\* An EOL map is a function from the series it has an entry for to
\* eol - today in days; version_eols.get(key) is None without an entry.
EolGet(version_eols, key) ==
    IF key \in DOMAIN version_eols
    THEN [none |-> FALSE, offset |-> version_eols[key]]
    ELSE [none |-> TRUE, offset |-> 0]

\* today < eol: the EOL date itself counted as past.
NotPastEolStrict(eol) == eol.offset > 0

\* The EOL date not looked at.
NotPastEolIgnored(eol) == TRUE

\* today <= eol
NotPastEol(eol) == eol.offset >= 0

StatusFor(eol) == IF eol.none THEN "feature" ELSE "bugfix"

RECURSIVE ResolveLoop(_, _, _, _)
ResolveLoop(versions_to_update, latest_versions, version_eols, i) ==
    IF i > Len(latest_versions) THEN versions_to_update
    ELSE LET key == latest_versions[i][1]
             value == latest_versions[i][2]
             eol == EolGet(version_eols, key)
         IN  IF ~is_prerelease(value) /\ (eol.none \/ NotPastEol(eol))
             THEN ResolveLoop(
                      Append(versions_to_update,
                             MkRow(value.major, value.minor, value.micro,
                                   "final", StatusFor(eol), 0)),
                      latest_versions, version_eols, i + 1)
             ELSE ResolveLoop(versions_to_update, latest_versions, version_eols, i + 1)

\* The synthesized record taking its level from a beta PRE_RELEASE.
PreReleaseRowBeta == MkRow(PRE_RELEASE.major, PRE_RELEASE.minor, PRE_RELEASE.micro,
                           "beta", "prerelease", 0)

PreReleaseRow == MkRow(PRE_RELEASE.major, PRE_RELEASE.minor, PRE_RELEASE.micro,
                       "alpha", "prerelease", 0)

\* The pre-release record left out.
AddPreReleaseSkipped(versions_to_update) == versions_to_update

\* if PRE_RELEASE: the constant is a non-empty string.
AddPreRelease(versions_to_update) == Append(versions_to_update, PreReleaseRow)

\* Lines 206-241 of fetch_and_update_versions.
Resolve(latest_versions, version_eols) ==
    AddPreRelease(ResolveLoop(<<>>, latest_versions, version_eols, 1))

(***************************************************************************)
(* Record store: table python_versions, name UNIQUE.                       *)
(***************************************************************************)
\* INSERT OR IGNORE: a row of the same name is kept.
InsertOrIgnore(rows, r) ==
    IF \E x \in rows : x.name = r.name THEN rows ELSE rows \cup {r}

\* INSERT into a table without the UNIQUE constraint on name.
InsertPlain(rows, r) == rows \cup {r}

\* An UPDATE of last_updated alone where the name exists.
InsertMergeOld(rows, r) ==
    IF \E x \in rows : x.name = r.name
    THEN {IF x.name = r.name THEN [x EXCEPT !.age = r.age] ELSE x : x \in rows}
    ELSE rows \cup {r}

\* INSERT OR REPLACE of one row: a row of the same name is deleted first.
InsertOrReplace(rows, r) == {x \in rows : x.name # r.name} \cup {r}

RECURSIVE ExecuteManyLoop(_, _, _)
ExecuteManyLoop(rows, versions, i) ==
    IF i > Len(versions) THEN rows
    ELSE ExecuteManyLoop(InsertOrReplace(rows, versions[i]), versions, i + 1)

\* The rows as the writing connection sees them after executemany.
executemany(rows, versions) == ExecuteManyLoop(rows, versions, 1)

\* A connection in autocommit mode: every INSERT is visible at once.
VisibleAfterInsertAutocommit(rows, r) == InsertOrReplace(rows, r)

\* What the other connections see after one INSERT of executemany: the
\* connection is opened with the default isolation level, so the INSERT
\* runs inside an implicit transaction and stays invisible until commit.
VisibleAfterInsert(rows, r) == rows

\* db.commit() publishes the rows of the transaction at once.
\* The table emptied before the batch is written.
commitFreshTable(rows, versions) == executemany({}, versions)

commit(rows, versions) == executemany(rows, versions)

\* ORDER BY major, minor, patch DESC: DESC applies to patch alone.
RowKeyPatchDescOnly(r) == <<0 - r.major, 0 - r.minor, r.patch>>

\* ORDER BY major DESC, minor DESC, patch DESC
RowKey(r) == <<r.major, r.minor, r.patch>>

RECURSIVE OrderByDesc(_)
OrderByDesc(rows) ==
    IF rows = {} THEN <<>>
    ELSE LET top == CHOOSE r \in rows :
                        \A o \in rows : ~LexLess(RowKey(r), RowKey(o), 1)
         IN  <<top>> \o OrderByDesc(rows \ {top})

get_versions_from_db(rows) == OrderByDesc(rows)

\* (datetime.now(UTC) - last_updated).days
days(age) == age \div Day

\* get_python_versions refreshing on every call.
NeedsRefreshAlways(db_versions) == TRUE

\* The condition of get_python_versions, line 256.
NeedsRefresh(db_versions) ==
    db_versions = <<>> \/ days(db_versions[1].age) > 1

(***************************************************************************)
(* Upstream answers the model draws from.                                  *)
(***************************************************************************)
\* The refs an answer of the tags endpoint is made of: a final release and
\* a later release candidate of an active series, a release of a series
\* that is not tracked, a ref that is no tag, and a tag that is no version.
TagUniverse ==
    { MkTag(TagPrefix, TRUE, 3, 12, 0, NoPre),
      MkTag(TagPrefix, TRUE, 3, 12, 1, <<"rc", 1>>),
      MkTag(TagPrefix, TRUE, 3, 8, 1, NoPre),
      MkTag("refs/heads/", TRUE, 3, 12, 1, NoPre),
      MkTag(TagPrefix, FALSE, 0, 0, 0, NoPre) }

RECURSIVE SeqsUpTo(_, _)
SeqsUpTo(S, n) ==
    IF n = 0 THEN {<<>>}
    ELSE LET shorter == SeqsUpTo(S, n - 1)
         IN  shorter \cup {Append(q, x) : q \in shorter, x \in S}

TagAnswersOver(universe) ==
    {[kind |-> "ok", body |-> b] : b \in SeqsUpTo(universe, MaxTags)}
    \cup {[kind |-> k, body |-> <<>>] : k \in TagFailures}

TagAnswers == TagAnswersOver(TagUniverse)

\* The EOL feed has an entry or none for a series; eol - today is a day
\* before today, today, or a day after.
EolSeries == {<<3, 12>>}
EolOffsets == {-1, 0, 1}

EolMapsOver(series) == UNION {[D -> EolOffsets] : D \in SUBSET series}

EolAnswersOver(series) ==
    {[kind |-> "ok", body |-> m] : m \in EolMapsOver(series)}
    \cup {[kind |-> k, body |-> <<>>] : k \in EolFailures}

EolAnswers == EolAnswersOver(EolSeries)

(***************************************************************************)
(* State machine.                                                          *)
(***************************************************************************)
NoResponse == [who |-> "", kind |-> "", body |-> <<>>]
NoAnswer == [who |-> "", feed |-> "", kind |-> ""]

\* No upstream is fixed: every request gets an answer of its own.
AnyUpstream == [tags |-> [kind |-> "", body |-> <<>>],
                eols |-> [kind |-> "", body |-> <<>>]]

InCycle == {"tags", "eol", "executemany", "commit"}

Init ==
    /\ store = {}                      \* initialize_database on a new file
    /\ pc = [p \in Procs |-> IF p = SCHED THEN "unstarted" ELSE "idle"]
    /\ latest = [p \in Procs |-> <<>>]
    /\ batch = [p \in Procs |-> <<>>]
    /\ written = [p \in Procs |-> 0]
    /\ timer = 0
    /\ fails = 0
    /\ response = NoResponse
    /\ answer = NoAnswer
    /\ upstream = AnyUpstream
    /\ table = TRUE                    \* generate_app_config has run

\* on_startup: start_periodic_update creates the task; its first cycle
\* starts without a sleep.
start_periodic_update ==
    /\ pc[SCHED] = "unstarted"
    /\ pc' = [pc EXCEPT ![SCHED] = "tags"]
    /\ response' = NoResponse
    /\ answer' = NoAnswer
    /\ UNCHANGED <<store, latest, batch, written, timer, fails, upstream, table>>

\* periodic_update without its except clause: an exception ends the task.
AfterCycleUncaught(raised) == IF raised THEN "dead" ELSE "sleep"

\* Where periodic_update goes when its cycle ended: the except clause
\* absorbs an exception and the finally clause sleeps in both cases.
AfterCycle(raised) == "sleep"

\* periodic_update retrying at once after a failed cycle.
SleepAfterFastRetry(raised) == IF raised THEN 0 ELSE SLEEP

\* The length of the sleep that follows a cycle.
SleepAfter(raised) == SLEEP

\* What get_python_versions hands to its caller when its refresh raised:
\* line 258 is in no try block, the exception propagates.
AfterRefreshRaised(rows) == [who |-> FACADE, kind |-> "raised", body |-> <<>>]

\* A coroutine goes on to its next await.
Goto(p, next) ==
    /\ pc' = [pc EXCEPT ![p] = next]
    /\ response' = NoResponse
    /\ UNCHANGED <<timer, fails>>

\* fetch_and_update_versions raised (lines 243-245): periodic_update logs
\* and sleeps; get_python_versions has no handler and raises to its caller.
Raise(p) ==
    /\ latest' = [latest EXCEPT ![p] = <<>>]
    /\ batch' = [batch EXCEPT ![p] = <<>>]
    /\ written' = [written EXCEPT ![p] = 0]
    /\ IF p = SCHED
       THEN /\ pc' = [pc EXCEPT ![p] = AfterCycle(TRUE)]
            /\ timer' = SleepAfter(TRUE)
            /\ fails' = Min(fails + 1, MaxFails)
            /\ response' = NoResponse
       ELSE /\ pc' = [pc EXCEPT ![p] = "idle"]
            /\ response' = AfterRefreshRaised(store)
            /\ UNCHANGED <<timer, fails>>

\* await get_tags_from_github() answers; lines 202-203 run up to the await
\* of get_version_eols().
FetchTags(p, answers) ==
    /\ pc[p] = "tags"
    /\ \E a \in answers :
         LET gh_response == get_tags_from_github(a)
             all_versions == IF gh_response.raised THEN Raises
                             ELSE get_version_from_tags(gh_response.val)
         IN  /\ answer' = [who |-> p, feed |-> "tags", kind |-> a.kind]
             /\ IF all_versions.raised
                THEN Raise(p)
                ELSE /\ latest' = [latest EXCEPT ![p] = get_latest_version(all_versions.val)]
                     /\ Goto(p, "eol")
                     /\ UNCHANGED <<batch, written>>
    /\ UNCHANGED <<store, upstream, table>>

\* await get_version_eols() answers; lines 206-241 run up to the first
\* await of update_versions_in_db.
FetchEols(p, answers) ==
    /\ pc[p] = "eol"
    /\ \E a \in answers :
         LET version_eols == get_version_eols(a)
             versions_to_update == Resolve(latest[p], version_eols.val)
         IN  /\ answer' = [who |-> p, feed |-> "eol", kind |-> a.kind]
             /\ IF version_eols.raised
                THEN Raise(p)
                ELSE /\ batch' = [batch EXCEPT ![p] = versions_to_update]
                     /\ latest' = [latest EXCEPT ![p] = <<>>]
                     /\ Goto(p, IF versions_to_update = <<>> THEN "commit" ELSE "executemany")
                     /\ UNCHANGED written
    /\ UNCHANGED <<store, upstream, table>>

\* A connection holds SQLite's write lock from its first INSERT to its
\* commit.
HoldsLock(q) == written[q] > 0

LockedOut(p) == \E q \in Procs \ {p} : HoldsLock(q)

\* update_versions_in_db, line 160: executemany inserts the next row of the
\* batch inside the connection's transaction; the first INSERT takes the
\* write lock.
InsertRow(p) ==
    /\ pc[p] = "executemany"
    /\ ~LockedOut(p)
    /\ LET i == written[p] + 1
       IN  /\ store' = VisibleAfterInsert(store, batch[p][i])
           /\ written' = [written EXCEPT ![p] = i]
           /\ Goto(p, IF i = Len(batch[p]) THEN "commit" ELSE "executemany")
    /\ answer' = NoAnswer
    /\ UNCHANGED <<latest, batch, upstream, table>>

\* update_versions_in_db, line 160: the write lock is held by the other
\* connection for longer than the busy timeout; sqlite3.OperationalError
\* ("database is locked") is raised.
ExecuteManyLocked(p) ==
    /\ pc[p] = "executemany"
    /\ LockedOut(p)
    /\ Raise(p)
    /\ answer' = NoAnswer
    /\ UNCHANGED <<store, upstream, table>>

\* update_versions_in_db, line 168, and the return of
\* fetch_and_update_versions to its caller: periodic_update starts its sleep
\* (lines 73-78), get_python_versions awaits its second read (line 259).
Commit(p) ==
    /\ pc[p] = "commit"
    /\ store' = commit(store, batch[p])
    /\ written' = [written EXCEPT ![p] = 0]
    /\ batch' = [batch EXCEPT ![p] = <<>>]
    /\ IF p = SCHED
       THEN /\ pc' = [pc EXCEPT ![p] = AfterCycle(FALSE)]
            /\ timer' = SleepAfter(FALSE)
            /\ fails' = 0
            /\ response' = NoResponse
       ELSE Goto(p, "reread")
    /\ answer' = NoAnswer
    /\ UNCHANGED <<latest, upstream, table>>

\* periodic_update, line 78 and back to line 69: the sleep is over.
Wake ==
    /\ pc[SCHED] = "sleep"
    /\ timer = 0
    /\ pc' = [pc EXCEPT ![SCHED] = "tags"]
    /\ response' = NoResponse
    /\ answer' = NoAnswer
    /\ UNCHANGED <<store, latest, batch, written, timer, fails, upstream, table>>

\* get_python_versions, lines 254-258 (or 261): the first read and the
\* decision to refresh.
GetPythonVersions ==
    /\ pc[FACADE] = "idle"
    /\ LET db_versions == get_versions_from_db(store)
       IN  IF NeedsRefresh(db_versions)
           THEN /\ pc' = [pc EXCEPT ![FACADE] = "tags"]
                /\ response' = NoResponse
           ELSE /\ response' = [who |-> FACADE, kind |-> "returned", body |-> db_versions]
                /\ UNCHANGED pc
    /\ answer' = NoAnswer
    /\ UNCHANGED <<store, latest, batch, written, timer, fails, upstream, table>>

\* get_python_versions, lines 259-261: the second read and the return.
Reread ==
    /\ pc[FACADE] = "reread"
    /\ response' = [who |-> FACADE, kind |-> "returned",
                    body |-> get_versions_from_db(store)]
    /\ pc' = [pc EXCEPT ![FACADE] = "idle"]
    /\ answer' = NoAnswer
    /\ UNCHANGED <<store, latest, batch, written, timer, fails, upstream, table>>

\* The route handlers are served once the application has started.
Serving == pc[SCHED] \notin {"unconfigured", "unstarted"}

\* What a route handler reads: get_versions_from_db(), not
\* get_python_versions().
HandlerRead(who) ==
    /\ Serving
    /\ response' = [who |-> who, kind |-> "returned",
                    body |-> get_versions_from_db(store)]
    /\ answer' = NoAnswer
    /\ UNCHANGED <<store, pc, latest, batch, written, timer, fails, upstream, table>>

\* CoreController.index: the template is rendered from the rows read.
index == HandlerRead("index")

\* CoreController.list_versions returns the rows read.
list_versions == HandlerRead("list_versions")

\* One tick of time passes: every timestamp is one tick older and a running
\* sleep has one tick less to go.
AgeRow(r) == [r EXCEPT !.age = Older(r.age)]
AgeRows(rows) == {AgeRow(r) : r \in rows}
AgeSeq(versions) == [i \in 1..Len(versions) |-> AgeRow(versions[i])]

Tick ==
    /\ store' = AgeRows(store)
    /\ batch' = [p \in Procs |-> AgeSeq(batch[p])]
    /\ timer' = IF pc[SCHED] = "sleep" /\ timer > 0 THEN timer - 1 ELSE timer
    /\ response' = NoResponse
    /\ answer' = NoAnswer
    /\ UNCHANGED <<pc, latest, written, fails, upstream, table>>

Next ==
    \/ start_periodic_update
    \/ \E p \in Procs : FetchTags(p, TagAnswers)
    \/ \E p \in Procs : FetchEols(p, EolAnswers)
    \/ \E p \in Procs : InsertRow(p)
    \/ \E p \in Procs : ExecuteManyLocked(p)
    \/ \E p \in Procs : Commit(p)
    \/ Wake
    \/ GetPythonVersions
    \/ Reread
    \/ index
    \/ list_versions
    \/ Tick

Spec == Init /\ [][Next]_vars

\* The event loop runs every coroutine that is ready, every upstream
\* request ends within its timeout, a connection waiting for the write lock
\* gets it or gives up, and time passes.
Fairness ==
    /\ WF_vars(start_periodic_update)
    /\ WF_vars(Wake)
    /\ WF_vars(Tick)
    /\ WF_vars(Reread)
    /\ \A p \in Procs :
         /\ WF_vars(FetchTags(p, TagAnswers))
         /\ WF_vars(FetchEols(p, EolAnswers))
         /\ WF_vars(InsertRow(p) \/ ExecuteManyLocked(p))
         /\ WF_vars(Commit(p))

FairSpec == Spec /\ Fairness

(***************************************************************************)
(* One scheduler cycle of a run whose upstream is fixed: both endpoints    *)
(* answer what the initial state drew, and the database file is new or was *)
(* left by the cycle of an earlier run.                                    *)
(***************************************************************************)
\* The refs of a fixed tags answer: two final patches and two release
\* candidates of an active series, a final patch of a second active series,
\* a release of a series that is not tracked, a ref that is no tag, and a
\* tag that is no version.
RefUniverse ==
    { MkTag(TagPrefix, TRUE, 3, 12, 0, NoPre),
      MkTag(TagPrefix, TRUE, 3, 12, 1, NoPre),
      MkTag(TagPrefix, TRUE, 3, 12, 0, <<"rc", 1>>),
      MkTag(TagPrefix, TRUE, 3, 12, 1, <<"rc", 1>>),
      MkTag(TagPrefix, TRUE, 3, 9, 5, NoPre),
      MkTag(TagPrefix, TRUE, 3, 8, 1, NoPre),
      MkTag("refs/heads/", TRUE, 3, 12, 1, NoPre),
      MkTag(TagPrefix, FALSE, 0, 0, 0, NoPre) }

Range(q) == {q[i] : i \in 1..Len(q)}

\* A repository lists a ref once.
RECURSIVE DistinctSeqsUpTo(_, _)
DistinctSeqsUpTo(S, n) ==
    IF n = 0 THEN {<<>>}
    ELSE LET shorter == DistinctSeqsUpTo(S, n - 1)
         IN  shorter \cup UNION {{Append(q, x) : x \in S \ Range(q)} : q \in shorter}

FixedTagAnswers ==
    {[kind |-> "ok", body |-> b] : b \in DistinctSeqsUpTo(RefUniverse, MaxRefs)}
    \cup {[kind |-> k, body |-> <<>>] : k \in TagFailures}

\* The EOL feed has an entry or none for each of the two active series.
FixedEolSeries == {<<3, 9>>, <<3, 12>>}

FixedEolAnswers == EolAnswersOver(FixedEolSeries)

FixedUpstreams ==
    {[tags |-> t, eols |-> e] : t \in FixedTagAnswers, e \in FixedEolAnswers}

RECURSIVE AgeRowsBy(_, _)
AgeRowsBy(rows, n) == IF n = 0 THEN rows ELSE AgeRowsBy(AgeRows(rows), n - 1)

\* The rows a cycle of the day before committed to a new file, when the
\* tags were v3.9.5 and v3.12.0 and the EOL feed had no entry.
EarlierTags ==
    << MkTag(TagPrefix, TRUE, 3, 9, 5, NoPre),
       MkTag(TagPrefix, TRUE, 3, 12, 0, NoPre) >>

EarlierStore ==
    AgeRowsBy(commit({}, Resolve(get_latest_version(get_version_from_tags(EarlierTags).val),
                                 <<>>)),
              SLEEP)

PriorStores == {{}, EarlierStore}

OneCycleInit ==
    /\ store \in PriorStores
    /\ upstream \in FixedUpstreams
    /\ table = TRUE
    /\ pc = [p \in Procs |-> IF p = SCHED THEN "unstarted" ELSE "idle"]
    /\ latest = [p \in Procs |-> <<>>]
    /\ batch = [p \in Procs |-> <<>>]
    /\ written = [p \in Procs |-> 0]
    /\ timer = 0
    /\ fails = 0
    /\ response = NoResponse
    /\ answer = NoAnswer

OneCycleNext ==
    \/ start_periodic_update
    \/ FetchTags(SCHED, {upstream.tags})
    \/ FetchEols(SCHED, {upstream.eols})
    \/ InsertRow(SCHED)
    \/ Commit(SCHED)
    \/ list_versions

OneCycleSpec == OneCycleInit /\ [][OneCycleNext]_vars

(***************************************************************************)
(* The application from before its construction: generate_app_config is   *)
(* the on_app_init hook, start_periodic_update the on_startup hook it      *)
(* registers.  The database file is new or has the table of an earlier     *)
(* run.                                                                    *)
(***************************************************************************)
\* generate_app_config registering the hook without creating the table.
initialize_databaseSkipped(exists) == exists

\* CREATE TABLE IF NOT EXISTS python_versions
initialize_database(exists) == TRUE

generate_app_config ==
    /\ pc[SCHED] = "unconfigured"
    /\ table' = initialize_database(table)
    /\ pc' = [p \in Procs |-> IF p = SCHED THEN "unstarted" ELSE "idle"]
    /\ response' = NoResponse
    /\ answer' = NoAnswer
    /\ UNCHANGED <<store, latest, batch, written, timer, fails, upstream>>

StartupInit ==
    /\ table \in BOOLEAN
    /\ store = {}
    /\ pc = [p \in Procs |-> "unconfigured"]
    /\ latest = [p \in Procs |-> <<>>]
    /\ batch = [p \in Procs |-> <<>>]
    /\ written = [p \in Procs |-> 0]
    /\ timer = 0
    /\ fails = 0
    /\ response = NoResponse
    /\ answer = NoAnswer
    /\ upstream = AnyUpstream

StartupNext ==
    \/ generate_app_config
    \/ Next

StartupSpec == StartupInit /\ [][StartupNext]_vars

(***************************************************************************)
(* Claims.                                                                 *)
(***************************************************************************)
SchedCycleOver == pc[SCHED] \notin InCycle \cup {"unstarted"}

\* C1: whenever a scheduler cycle has failed, whatever raised and however
\* many cycles failed in a row before it, the scheduler is still alive and
\* another scheduler cycle eventually starts.
C1_FailureIsolation ==
    (SchedCycleOver /\ fails > 0) ~> (pc[SCHED] = "tags")

\* A scheduler cycle starts after MaxFails cycles failed in a row.
C1_Witness == pc[SCHED] = "tags" /\ fails = MaxFails

\* C2: a scheduler cycle that ends, failed or not, is followed by a sleep of
\* one day, the sleep runs down only with time, and the next cycle starts
\* only when it has run down.
C2_NoFastRetry ==
    [][/\ (pc[SCHED] \in InCycle /\ pc'[SCHED] \notin InCycle)
            => (pc'[SCHED] = "sleep" /\ timer' = Day)
       /\ (pc[SCHED] = "sleep" /\ pc'[SCHED] = "sleep")
            => (timer' = timer \/ (timer' = timer - 1 /\ store' = AgeRows(store)))
       /\ (pc[SCHED] = "sleep" /\ pc'[SCHED] # "sleep")
            => (timer = 0 /\ pc'[SCHED] = "tags")]_vars

\* The sleep after a failed cycle has run down to its end.
C2_Witness == pc[SCHED] = "sleep" /\ fails > 0 /\ timer = 0

FetchFailed(p, feed, kinds) ==
    answer'.who = p /\ answer'.feed = feed /\ answer'.kind \in kinds

FetchOk(p, feed) == FetchFailed(p, feed, {"ok"})

CycleEnds(p) == pc[p] \in InCycle /\ pc'[p] \notin InCycle

Commits(p) == pc[p] = "commit" /\ pc'[p] # "commit"

Rows(versions) == {versions[i] : i \in 1..Len(versions)}

Names(rows) == {r.name : r \in rows}

\* rows with the rows of versions put in place of the rows of their names.
Upserted(rows, versions) ==
    {r \in rows : r.name \notin Names(Rows(versions))} \cup Rows(versions)

\* C3: a failing EOL fetch ends the cycle on the spot, whatever the tag
\* fetch returned: no batch is built, nothing is inserted or committed, and
\* no fetch step of the cycle has changed the store.
C3_EolFailureAbandonsCycle ==
    [][\A p \in Procs :
         /\ (answer'.who = p) => store' = store
         /\ FetchFailed(p, "eol", EolFailures)
              => /\ CycleEnds(p)
                 /\ batch'[p] = <<>>
                 /\ written'[p] = 0
                 /\ store' = store]_vars

\* An EOL fetch has just failed over a store that holds rows.
C3_Witness ==
    answer.feed = "eol" /\ answer.kind \in EolFailures /\ store # {}

\* C4: a failing tag fetch yields no tags and the cycle goes on to the EOL
\* fetch; when that succeeds with no tags the batch is exactly the
\* synthesized pre-release record, and the commit upserts exactly it.
C4_TagSoftFail ==
    [][\A p \in Procs :
         /\ FetchFailed(p, "tags", TagFailures)
              => (pc'[p] = "eol" /\ latest'[p] = <<>> /\ store' = store)
         /\ (FetchOk(p, "eol") /\ latest[p] = <<>>)
              => (batch'[p] = <<PreReleaseRow>> /\ pc'[p] = "executemany")
         /\ (Commits(p) /\ Len(batch[p]) = 1)
              => store' = {r \in store : r.name # batch[p][1].name} \cup {batch[p][1]}]_vars

\* A tag fetch has just failed and its cycle awaits the EOL feed.
C4_Witness ==
    /\ answer.feed = "tags" /\ answer.kind \in TagFailures
    /\ pc[answer.who] = "eol" /\ latest[answer.who] = <<>>

\* C5: a refresh that fails inside get_python_versions never reaches the
\* caller: the call returns the rows that are in the store.
C5_FacadeNeverRaises ==
    [][CycleEnds(FACADE)
         => \/ pc'[FACADE] = "reread"
            \/ /\ response'.kind = "returned"
               /\ response'.body = get_versions_from_db(store')]_vars

FreshestAge(rows) == CHOOSE a \in {r.age : r \in rows} : \A r \in rows : a <= r.age

\* The store is empty or its freshest row is more than a day old.
StaleByClaim(rows) == rows = {} \/ FreshestAge(rows) > Day

FacadeCalled == pc[FACADE] = "idle" /\ (pc'[FACADE] = "tags" \/ response'.who = FACADE)

\* C6: a call of get_python_versions starts a refresh exactly when the store
\* is empty or the freshest row is more than 24 hours old.
C6_RefreshIffStale ==
    [][FacadeCalled => (pc'[FACADE] = "tags" <=> StaleByClaim(store))]_vars

\* C7: a route handler returns the stored rows and, when the store is empty
\* or stale by the test of get_python_versions, starts a refresh cycle.
C7_HandlersRefresh ==
    [][response'.who \in {"index", "list_versions"}
         => /\ response'.body = get_versions_from_db(store)
            /\ NeedsRefresh(get_versions_from_db(store))
                 => \E p \in Procs : pc[p] \notin InCycle /\ pc'[p] \in InCycle]_vars

\* C8: the committed rows change only by the passage of time or by one
\* commit that puts a whole batch in place; a read returns the committed
\* rows, so never part of a batch; and at most one connection at a time has
\* inserted rows it has not committed.
C8_BatchAtomic ==
    [][/\ \/ store' = store
          \/ store' = AgeRows(store)
          \/ \E p \in Procs : Commits(p) /\ store' = Upserted(store, batch[p])
       /\ response'.kind = "returned"
            => (response'.body = get_versions_from_db(store) /\ store' = store)
       /\ Cardinality({p \in Procs : written'[p] > 0}) <= 1]_vars

\* A handler reads while one cycle has inserted the first of its two rows,
\* which the store does not show, and the other cycle waits to insert.
C8_Witness ==
    /\ response.who = "index"
    /\ \E p \in Procs :
         /\ pc[p] = "executemany" /\ written[p] = 1 /\ Len(batch[p]) = 2
         /\ batch[p][1] \notin store
         /\ \E q \in Procs \ {p} : pc[q] = "executemany"

BothReadyToStore ==
    \A p \in Procs : pc[p] = "executemany" /\ written[p] = 0

\* C9 as claimed: when both cycles are ready to store, the store that
\* results is the same whichever of the two stores first.
C9_OrderIndependent ==
    BothReadyToStore
      => Upserted(Upserted(store, batch[SCHED]), batch[FACADE])
           = Upserted(Upserted(store, batch[FACADE]), batch[SCHED])

\* C9 as amended: the last writer wins, name by name.  A commit leaves in
\* the store, for every name of its batch, the row of its batch, whatever
\* the other cycle wrote before, and keeps every other row; the read that
\* ends get_python_versions returns the store as the last commit left it.
C9_LastWriterWins ==
    [][/\ \A p \in Procs :
            Commits(p)
              => /\ \A i \in 1..Len(batch[p]) :
                      {r \in store' : r.name = batch[p][i].name} = {batch[p][i]}
                 /\ \A r \in store :
                      r.name \notin Names(Rows(batch[p])) => r \in store'
                 /\ Names(store') = Names(store) \cup Names(Rows(batch[p]))
       /\ (pc[FACADE] = "reread" /\ pc'[FACADE] = "idle")
            => response'.body = get_versions_from_db(store)]_vars

\* The two cycles race to store batches that differ in the status of a name
\* both hold.
C9_Witness ==
    /\ pc[SCHED] = "commit" /\ pc[FACADE] = "executemany"
    /\ \E i \in 1..Len(batch[SCHED]), j \in 1..Len(batch[FACADE]) :
         /\ batch[SCHED][i].name = batch[FACADE][j].name
         /\ batch[SCHED][i].status # batch[FACADE][j].status

IsPreRelease(r) ==
    r.name = PreReleaseRow.name /\ r.level = "alpha" /\ r.status = "prerelease"

\* C10 as claimed: also a cycle whose EOL fetch fails has the synthesized
\* pre-release record in its output.
C10_PreReleaseAlways ==
    [][\A p \in Procs :
         FetchFailed(p, "eol", EolFailures)
           => \E r \in Rows(batch'[p]) : IsPreRelease(r)]_vars

\* C10 as amended: every cycle whose EOL fetch succeeds has the synthesized
\* pre-release record in its batch, whatever the tag fetch gave, and its
\* commit puts that record in the store.
C10_PreReleaseWhenEolOk ==
    [][\A p \in Procs :
         /\ FetchOk(p, "eol")
              => (pc'[p] = "executemany" /\ \E r \in Rows(batch'[p]) : IsPreRelease(r))
         /\ Commits(p)
              => \E r \in Rows(batch[p]) : IsPreRelease(r) /\ r \in store']_vars

\* An EOL fetch has just succeeded for a cycle without tags, over a store
\* that is still empty.
C10_Witness ==
    /\ answer.feed = "eol" /\ answer.kind = "ok"
    /\ batch[answer.who] = <<PreReleaseRow>>
    /\ store = {}

\* The series of a stored row.
RowSeries(r) == <<r.major, r.minor>>

TagsFailed == upstream.tags.kind \in TagFailures
TagsOk == upstream.tags.kind = "ok"
EolsOk == upstream.eols.kind = "ok"

\* C11 as claimed: in a cycle whose tag fetch fails and whose EOL fetch
\* succeeds, every final record stored for an active series that is not
\* past its EOL date has, after the cycle's commit, the status the EOL data
\* gives its series.
C11_StatusRefreshedWithoutTags ==
    [][(Commits(SCHED) /\ TagsFailed /\ EolsOk)
         => \A r \in store :
              LET eol == EolGet(upstream.eols.body, RowSeries(r))
              IN  (r.level = "final" /\ InActive(RowSeries(r))
                     /\ (eol.none \/ eol.offset >= 0))
                    => \E w \in store' :
                         /\ w.name = r.name
                         /\ w.status = (IF eol.none THEN "feature" ELSE "bugfix")]_vars

\* C12 as claimed: a decoded tags answer, whatever refs it lists, raises no
\* error and lets the cycle go on to the EOL fetch.
C12_MalformedTagsIgnored ==
    [][(answer'.feed = "tags" /\ TagsOk)
         => (pc'[SCHED] = "eol"
             /\ latest'[SCHED] =
                  get_latest_version(
                      [i \in 1..Len(SelectSeq(upstream.tags.body,
                                     LAMBDA t : startswith(t) /\ t.valid))
                         |-> parse(SelectSeq(upstream.tags.body,
                                     LAMBDA t : startswith(t) /\ t.valid)[i])]))]_vars

\* The final-release records of a batch for a series.
FinalsOf(versions, series) ==
    {i \in 1..Len(versions) :
        versions[i].level = "final" /\ RowSeries(versions[i]) = series}

\* The versions the tags of the fixed upstream parse to, for a series.
TaggedIn(series) ==
    {parse(t) : t \in {x \in Range(upstream.tags.body) :
                          startswith(x) /\ x.valid /\ Series(parse(x)) = series}}

\* C13: whatever the tags and the EOL map of a cycle, its batch holds at
\* most one final-release record per series, and only for series of the
\* allow-list.
C13_OneFinalPerSeries ==
    \A p \in Procs :
      \A i \in 1..Len(batch[p]) :
        batch[p][i].level = "final"
          => /\ InActive(RowSeries(batch[p][i]))
             /\ FinalsOf(batch[p], RowSeries(batch[p][i])) = {i}

\* The tags held two final releases of a series and the batch has a final
\* record for it.
C13_Witness ==
    /\ pc[SCHED] = "executemany"
    /\ \E a, b \in TaggedIn(<<3, 12>>) :
         a # b /\ ~is_prerelease(a) /\ ~is_prerelease(b)
    /\ FinalsOf(batch[SCHED], <<3, 12>>) # {}

\* The tags of the spec's example, in any order.
ExampleTags ==
    { MkTag(TagPrefix, TRUE, 3, 12, 0, NoPre),
      MkTag(TagPrefix, TRUE, 3, 12, 1, NoPre),
      MkTag(TagPrefix, TRUE, 3, 12, 0, <<"rc", 1>>) }

\* C14: once the tags are resolved, latest_versions holds for every active
\* series that has a tag exactly one version, a tagged one, of the highest
\* patch number tagged, and a final release if that patch has one; for the
\* tags {v3.12.0, v3.12.1, v3.12.0rc1} and no EOL entry for 3.12 the batch
\* holds one record of series 3.12: patch 1, final, feature.
C14_LatestInSeries ==
    /\ (pc[SCHED] = "eol" /\ TagsOk)
         => \A k \in 1..Len(ACTIVE_VERSIONS) :
              LET series == ACTIVE_VERSIONS[k]
                  held == {i \in 1..Len(latest[SCHED]) : latest[SCHED][i][1] = series}
              IN  IF TaggedIn(series) = {} THEN held = {}
                  ELSE /\ Cardinality(held) = 1
                       /\ \A i \in held :
                            LET v == latest[SCHED][i][2]
                            IN  /\ v \in TaggedIn(series)
                                /\ \A t \in TaggedIn(series) :
                                     /\ t.micro <= v.micro
                                     /\ (t.micro = v.micro /\ ~is_prerelease(t))
                                          => ~is_prerelease(v)
    /\ (/\ pc[SCHED] \in {"executemany", "commit"}
        /\ TagsOk /\ Range(upstream.tags.body) = ExampleTags
        /\ EolsOk /\ <<3, 12>> \notin DOMAIN upstream.eols.body)
         => {r \in Rows(batch[SCHED]) : RowSeries(r) = <<3, 12>>}
              = {MkRow(3, 12, 1, "final", "feature", 0)}

\* The example's tags came with the release candidate first and the batch
\* is resolved.
C14_Witness ==
    /\ pc[SCHED] = "executemany"
    /\ TagsOk /\ Range(upstream.tags.body) = ExampleTags
    /\ is_prerelease(parse(upstream.tags.body[1]))
    /\ EolsOk /\ <<3, 12>> \notin DOMAIN upstream.eols.body
    /\ MkRow(3, 12, 1, "final", "feature", 0) \in Rows(batch[SCHED])

Resolved == pc[SCHED] \in {"executemany", "commit"} /\ TagsOk /\ EolsOk

\* The EOL map has an entry for the series, d days from today.
EolIn(series, d) ==
    series \in DOMAIN upstream.eols.body /\ upstream.eols.body[series] = d

NoEol(series) == series \notin DOMAIN upstream.eols.body

\* The highest patch tagged for the series has a final release.
BestIsFinal(series, patch) ==
    /\ \E t \in TaggedIn(series) : t.micro = patch /\ ~is_prerelease(t)
    /\ \A t \in TaggedIn(series) : t.micro <= patch

\* C15: in a resolved batch every final record has status feature if the
\* EOL map has no entry for its series and bugfix if it has one, whose date
\* is then today or later; and a series whose latest tag is a final release
\* has its record with status feature when the map has no entry and bugfix
\* when the entry's date is today or later, today itself included.
C15_StatusAssignment ==
    Resolved =>
      /\ \A r \in Rows(batch[SCHED]) :
           r.level = "final"
             => /\ r.status \in {"feature", "bugfix"}
                /\ r.status = "feature" <=> NoEol(RowSeries(r))
                /\ r.status = "bugfix"
                     <=> \E d \in EolOffsets : d >= 0 /\ EolIn(RowSeries(r), d)
      /\ \A k \in 1..Len(ACTIVE_VERSIONS) :
         \A t \in TaggedIn(ACTIVE_VERSIONS[k]) :
           LET series == ACTIVE_VERSIONS[k]
               patch == t.micro
           IN  BestIsFinal(series, patch)
                 => /\ NoEol(series)
                         => MkRow(series[1], series[2], patch, "final", "feature", 0)
                              \in Rows(batch[SCHED])
                    /\ (\E d \in EolOffsets : d >= 0 /\ EolIn(series, d))
                         => MkRow(series[1], series[2], patch, "final", "bugfix", 0)
                              \in Rows(batch[SCHED])

\* A series reaches its EOL date today and its record is bugfix, next to a
\* feature record of a series without entry.
C15_Witness ==
    /\ Resolved
    /\ EolIn(<<3, 12>>, 0) /\ NoEol(<<3, 9>>)
    /\ \E r, q \in Rows(batch[SCHED]) :
         /\ RowSeries(r) = <<3, 12>> /\ r.status = "bugfix"
         /\ RowSeries(q) = <<3, 9>> /\ q.status = "feature"

\* C16: while the EOL map of the cycle has a date before today for a
\* series, the cycle's batch never holds a record of that series and no
\* step of the cycle changes or removes a stored record of that series.
C16_PastEolDropped ==
    [][EolsOk =>
         \A series \in DOMAIN upstream.eols.body :
           upstream.eols.body[series] < 0
             => /\ \A r \in Rows(batch'[SCHED]) : RowSeries(r) # series
                /\ \A r \in store : RowSeries(r) = series => r \in store']_vars

\* A cycle has committed while 3.9 was past its EOL date and tagged v3.9.5;
\* the record of 3.9.5 stored the day before is there as it was.
C16_Witness ==
    /\ pc[SCHED] = "sleep" /\ fails = 0
    /\ TagsOk /\ (\E t \in TaggedIn(<<3, 9>>) : ~is_prerelease(t))
    /\ EolsOk /\ (\E d \in EolOffsets : d < 0 /\ EolIn(<<3, 9>>, d))
    /\ MkRow(3, 9, 5, "final", "feature", SLEEP) \in store
    /\ \E r \in store : r.age = 0

UniqueNames(rows) == \A x, y \in rows : x.name = y.name => x = y

\* C17: when a cycle has committed its batch, whatever the store held
\* before, no two rows have the same name, and committing the same batch a
\* second time leaves getAll() as it is after the first and the names
\* unique.
C17_UpsertManyIdempotent ==
    [][Commits(SCHED)
         => LET once == store'
                twice == commit(once, batch[SCHED])
            IN  /\ UniqueNames(once)
                /\ UniqueNames(twice)
                /\ get_versions_from_db(twice) = get_versions_from_db(once)]_vars

\* A batch of several records is about to be committed over a store that
\* holds rows of some of its names.
C17_Witness ==
    /\ pc[SCHED] = "commit"
    /\ Len(batch[SCHED]) > 1
    /\ \E i \in 1..Len(batch[SCHED]) : batch[SCHED][i].name \in Names(store)
    /\ \E i \in 1..Len(batch[SCHED]) : batch[SCHED][i].name \notin Names(store)

\* (major, minor, patch) of x is higher than that of y.
KeyAbove(x, y) ==
    \/ x.major > y.major
    \/ x.major = y.major /\ x.minor > y.minor
    \/ x.major = y.major /\ x.minor = y.minor /\ x.patch > y.patch

\* C18: what a read returns holds every stored row once, each row before
\* all rows of a lower (major, minor, patch).
C18_GetAllDescending ==
    [][response'.kind = "returned"
         => LET b == response'.body
            IN  /\ Rows(b) = store'
                /\ Len(b) = Cardinality(store')
                /\ \A i, j \in 1..Len(b) : i < j => KeyAbove(b[i], b[j])]_vars

\* A read returned rows of three series, two patches of one of them, after
\* a cycle whose tags had series 3.9 before series 3.12.
C18_Witness ==
    /\ response.kind = "returned"
    /\ Len(response.body) > 3
    /\ TagsOk /\ Len(upstream.tags.body) > 1
    /\ Series(parse(upstream.tags.body[1])) = <<3, 9>>
    /\ \E r, q \in Rows(response.body) :
         /\ r.age = 0 /\ RowSeries(r) = <<3, 9>>
         /\ q.age = 0 /\ RowSeries(q) = <<3, 12>>

\* C19: after a cycle's commit the store holds, for every name of the
\* batch, the batch's record and no other row of that name, every row of
\* another name as it was, and nothing else.
C19_UpsertReplacesByName ==
    [][Commits(SCHED)
         => /\ \A i \in 1..Len(batch[SCHED]) :
                 {r \in store' : r.name = batch[SCHED][i].name} = {batch[SCHED][i]}
            /\ \A r \in store :
                 r.name \notin Names(Rows(batch[SCHED])) => r \in store'
            /\ store' \subseteq store \cup Rows(batch[SCHED])]_vars

\* The commit has replaced the record of 3.12.0, stored as feature the day
\* before, by the batch's bugfix record and left that of 3.9.5 alone.
C19_Witness ==
    /\ pc[SCHED] = "sleep" /\ fails = 0
    /\ MkRow(3, 12, 0, "final", "bugfix", 0) \in store
    /\ MkRow(3, 9, 5, "final", "feature", SLEEP) \in store

\* C20: no step removes a name from the store, and every read returns a
\* row for every name stored.
C20_NeverDeleted ==
    [][/\ Names(store) \subseteq Names(store')
       /\ response'.kind = "returned"
            => Names(Rows(response'.body)) = Names(store')]_vars

\* A read returns the record of a series that later cycles stopped
\* emitting, next to a record they went on writing.
C20_Witness ==
    /\ response.kind = "returned"
    /\ \E r, q \in Rows(response.body) :
         r.level = "final" /\ IsPreRelease(q) /\ r.age > q.age + Day

CycleStarts == pc[SCHED] # "tags" /\ pc'[SCHED] = "tags"

\* C21: a scheduler cycle starts either from the on_startup hook, with the
\* table in place and no sleep set or run, or from a sleep that has run
\* down; the hook leads nowhere but to the first cycle and runs only after
\* the table is there; a cycle that ends starts a sleep of one day, and a
\* sleep runs down only with time.
C21_FirstCycleAtStartup ==
    [][/\ CycleStarts
            => \/ pc[SCHED] = "unstarted" /\ table /\ timer = 0 /\ store' = store
               \/ pc[SCHED] = "sleep" /\ timer = 0
       /\ pc'[SCHED] = "unstarted" => table'
       /\ (pc[SCHED] = "unstarted" /\ pc'[SCHED] # "unstarted") => pc'[SCHED] = "tags"
       /\ (pc[SCHED] \in InCycle /\ pc'[SCHED] \notin InCycle)
            => (pc'[SCHED] = "sleep" /\ timer' = Day)
       /\ (pc[SCHED] = "sleep" /\ pc'[SCHED] = "sleep")
            => (timer' = timer \/ (timer' = timer - 1 /\ store' = AgeRows(store)))]_vars

\* The first cycle has started: nothing has failed, slept or been stored.
C21_Witness ==
    /\ pc[SCHED] = "tags" /\ fails = 0 /\ store = {} /\ timer = 0 /\ table

\* C22: every record of a batch is either of a series of the allow-list,
\* and then a final record of a patch tagged for that series, or the
\* synthesized pre-release record, whose series is not of the allow-list.
C22_ActiveSeriesOnly ==
    /\ ~InActive(RowSeries(PreReleaseRow))
    /\ \A r \in Rows(batch[SCHED]) :
         IF InActive(RowSeries(r))
         THEN r.level = "final" /\ \E t \in TaggedIn(RowSeries(r)) : t.micro = r.patch
         ELSE r = PreReleaseRow

\* The tags held a release of series 3.8 next to one of an active series,
\* and the batch is resolved.
C22_Witness ==
    /\ Resolved
    /\ TaggedIn(<<3, 8>>) # {}
    /\ \E r \in Rows(batch[SCHED]) : InActive(RowSeries(r))

\* The highest patch tagged for the series has a pre-release and no final
\* release.
BestIsPre(series) ==
    \E t \in TaggedIn(series) :
      /\ t.pre # NoPre
      /\ \A u \in TaggedIn(series) :
           u.micro < t.micro \/ (u.micro = t.micro /\ u.pre # NoPre)

\* v3.12.0 and v3.12.1rc1, the spec's example.
LowerFinalTags ==
    { MkTag(TagPrefix, TRUE, 3, 12, 0, NoPre),
      MkTag(TagPrefix, TRUE, 3, 12, 1, <<"rc", 1>>) }

\* C23: a resolved batch has no record of an active series whose highest
\* tagged patch is a pre-release without final release, lower final
\* releases or not (none for 3.12 from v3.12.0 and v3.12.1rc1), and every
\* record it has of an active series is of level final and of a patch that
\* was tagged as a final release.
C23_PreReleaseMaxDropsSeries ==
    Resolved =>
      /\ \A k \in 1..Len(ACTIVE_VERSIONS) :
           BestIsPre(ACTIVE_VERSIONS[k])
             => \A r \in Rows(batch[SCHED]) : RowSeries(r) # ACTIVE_VERSIONS[k]
      /\ Range(upstream.tags.body) = LowerFinalTags
           => \A r \in Rows(batch[SCHED]) : RowSeries(r) # <<3, 12>>
      /\ \A r \in Rows(batch[SCHED]) :
           InActive(RowSeries(r))
             => /\ r.level = "final"
                /\ \E t \in TaggedIn(RowSeries(r)) : t.micro = r.patch /\ t.pre = NoPre

\* The batch of the example's tags is resolved, with a record of another
\* series in it.
C23_Witness ==
    /\ Resolved
    /\ LowerFinalTags \subseteq Range(upstream.tags.body)
    /\ BestIsPre(<<3, 12>>)
    /\ \E r \in Rows(batch[SCHED]) : RowSeries(r) = <<3, 9>>

\* C24 as claimed: in every state the first row get_versions_from_db
\* returns, the one get_python_versions tests for staleness, is no older
\* than any other stored row.
C24_ProbeIsFreshest ==
    LET db_versions == get_versions_from_db(store)
    IN  db_versions # <<>>
          => \A r \in store : db_versions[1].age <= r.age

\* The stored row of the highest (major, minor, patch) is at most a day old.
TopIsFresh ==
    \E r \in store : r.age <= Day /\ \A o \in store \ {r} : KeyAbove(r, o)

FacadeCycleStarts == pc[FACADE] # "tags" /\ pc'[FACADE] = "tags"

\* C25: get_python_versions called on an empty store starts a cycle and
\* returns nothing yet; a cycle of get_python_versions starts from such a
\* call only; when the cycle has committed, get_python_versions does not
\* start another but reads the store again and returns what it reads, which
\* is not empty and holds the synthesized pre-release record; called on a
\* store whose first row is at most a day old it starts no cycle, returns
\* the rows and leaves the store as it is.
C25_FacadeRefreshOnce ==
    [][/\ (FacadeCalled /\ store = {})
            => (FacadeCycleStarts /\ response'.kind = "" /\ store' = store)
       /\ FacadeCycleStarts => FacadeCalled
       /\ Commits(FACADE) => pc'[FACADE] = "reread"
       /\ pc[FACADE] = "reread"
            => \/ pc'[FACADE] = "reread" /\ response'.who # FACADE
               \/ /\ pc'[FACADE] = "idle"
                  /\ response' = [who |-> FACADE, kind |-> "returned",
                                  body |-> get_versions_from_db(store)]
                  /\ response'.body # <<>>
                  /\ \E r \in Rows(response'.body) : IsPreRelease(r)
                  /\ store' = store
       /\ (FacadeCalled /\ TopIsFresh)
            => /\ pc'[FACADE] = "idle"
               /\ response' = [who |-> FACADE, kind |-> "returned",
                               body |-> get_versions_from_db(store)]
               /\ store' = store]_vars

\* The cycle of a get_python_versions call has committed before the
\* scheduler was started: the call found the store empty.
C25_Witness ==
    /\ pc[FACADE] = "reread"
    /\ pc[SCHED] = "unstarted"
    /\ \E r \in store : IsPreRelease(r)

\* C26: every stored row has status feature, bugfix or prerelease and level
\* final or alpha, and a row of status prerelease has level alpha.
C26_StoredStatusAndLevel ==
    \A r \in store :
      /\ r.status \in {"feature", "bugfix", "prerelease"}
      /\ r.level \in {"final", "alpha"}
      /\ r.status = "prerelease" => r.level = "alpha"

\* The store holds a bugfix record next to the pre-release record after the
\* scheduler and get_python_versions have both written.
C26_Witness ==
    /\ pc[SCHED] = "sleep" /\ pc[FACADE] = "reread"
    /\ \E r, q \in store :
         /\ r.status = "bugfix" /\ r.level = "final"
         /\ q.status = "prerelease" /\ q.level = "alpha"

====
